---- MODULE Spec2Model ----
(***************************************************************************)
(* Model of forecast.py: a cash-flow forecast that loads recurring         *)
(* transactions from a CSV file, steps a simulated calendar day by day     *)
(* over a horizon and appends every posting to a ledger.                   *)
(*                                                                         *)
(* Money is counted in cents (the program rounds amounts to 2 decimals).   *)
(* A date is the number of days since BaseYear-01-01.  The texts of the    *)
(* CSV file are strings; float() and date.fromisoformat() are the tables   *)
(* FloatText and IsoText, a text outside the table being one the           *)
(* conversion rejects with ValueError.  NoneValue is Python's None, which  *)
(* csv.DictReader yields for a column a short row does not have.           *)
(***************************************************************************)
EXTENDS Integers, Sequences, FiniteSets, TLC

\* ------------------------------------------------------------------ bounds
MaxRows == 2
MaxDays == 8

\* ---------------------------------------------------------------- calendar
\* the years the calendar covers
CalendarYears == 2023..2032

BaseYear == CHOOSE y \in CalendarYears : \A z \in CalendarYears : y <= z

IsLeap(y) == (y % 4 = 0 /\ y % 100 # 0) \/ (y % 400 = 0)

DaysInYear(y) == IF IsLeap(y) THEN 366 ELSE 365

monthrange(y, m) ==
    IF m = 2 THEN (IF IsLeap(y) THEN 29 ELSE 28)
    ELSE IF m \in {4, 6, 9, 11} THEN 30 ELSE 31

RECURSIVE DaysBeforeYearFrom(_)
DaysBeforeYearFrom(y) ==
    IF y <= BaseYear THEN 0 ELSE DaysBeforeYearFrom(y - 1) + DaysInYear(y - 1)

\* the days of the calendar before the 1st of January of a year
DaysBeforeYearTable ==
    [y \in BaseYear..(BaseYear + Cardinality(CalendarYears)) |-> DaysBeforeYearFrom(y)]

DaysBeforeYear(y) == DaysBeforeYearTable[y]

RECURSIVE DaysBeforeMonthFrom(_, _)
DaysBeforeMonthFrom(leap, m) ==
    IF m <= 1 THEN 0
    ELSE DaysBeforeMonthFrom(leap, m - 1)
         + (IF m - 1 = 2 THEN (IF leap THEN 29 ELSE 28)
            ELSE IF m - 1 \in {4, 6, 9, 11} THEN 30 ELSE 31)

\* the days of a year before the 1st of a month (13: the whole year)
DaysBeforeMonthTable ==
    [leap \in BOOLEAN |-> [m \in 1..13 |-> DaysBeforeMonthFrom(leap, m)]]

DaysBeforeMonth(y, m) == DaysBeforeMonthTable[IsLeap(y)][m]

CalDays == DaysBeforeYear(BaseYear + Cardinality(CalendarYears))

\* datetime.date(y, m, d) as a day number
Date(y, m, d) == DaysBeforeYear(y) + DaysBeforeMonth(y, m) + (d - 1)

RECURSIVE YearOfFrom(_, _)
YearOfFrom(n, y) ==
    IF n < DaysBeforeYear(y + 1) THEN y ELSE YearOfFrom(n, y + 1)

RECURSIVE MonthOfFrom(_, _, _)
MonthOfFrom(r, y, m) ==
    IF r < DaysBeforeMonth(y, m + 1) THEN m ELSE MonthOfFrom(r, y, m + 1)

\* year, month and day of every date of the calendar
YMD ==
    [n \in 0..(CalDays - 1) |->
        LET y == YearOfFrom(n, BaseYear)
            r == n - DaysBeforeYear(y)
            m == MonthOfFrom(r, y, 1)
        IN  <<y, m, r - DaysBeforeMonth(y, m) + 1>>]

Min(a, b) == IF a <= b THEN a ELSE b

Abs(x) == IF x < 0 THEN -x ELSE x

\* dateutil.relativedelta(years, months, days)
relativedelta(ys, ms, ds) == [years |-> ys, months |-> ms, days |-> ds]

\* date + relativedelta: the years and months first, the day of month
\* clamped to the length of the target month, then the days
DatePlus(dt, delta) ==
    LET y0 == YMD[dt][1] + delta.years
        m0 == YMD[dt][2] + delta.months
        y1 == IF m0 > 12 THEN y0 + 1 ELSE y0
        m1 == IF m0 > 12 THEN m0 - 12 ELSE m0
        d1 == Min(monthrange(y1, m1), YMD[dt][3])
    IN  Date(y1, m1, d1) + delta.days

\* ------------------------------------------------------------ program data
REQUIRED_INPUT_FIELDS == {"name", "frequency", "next_date", "amount", "transaction_type"}

NoneValue == "<None>"

\* float(text) in cents, for the texts float() accepts
FloatText ==
    ("50.00" :> 5000) @@ ("-50.00" :> -5000) @@ ("20.00" :> 2000) @@
    ("-20.00" :> -2000) @@ ("0.00" :> 0)

\* the year, month and day written in a text of the form YYYY-MM-DD
IsoText ==
    ("2023-02-12" :> <<2023, 2, 12>>) @@ ("2023-08-31" :> <<2023, 8, 31>>) @@
    ("2023-11-30" :> <<2023, 11, 30>>) @@ ("2023-12-31" :> <<2023, 12, 31>>) @@
    ("2024-02-12" :> <<2024, 2, 12>>) @@ ("2024-02-18" :> <<2024, 2, 18>>) @@
    ("2024-02-25" :> <<2024, 2, 25>>) @@ ("2024-03-01" :> <<2024, 3, 1>>) @@
    ("2024-02-30" :> <<2024, 2, 30>>)

\* datetime.date.today() when the program starts
Today == Date(2024, 2, 25)

Row(n, f, d, a, t) ==
    [name |-> n, frequency |-> f, next_date |-> d, amount |-> a, transaction_type |-> t]

\* records the CSV file can hold that construct a transaction
ValidRows ==
    { Row("A", "daily", "2024-02-18", "-20.00", "income"),
      Row("B", "weekly", "2024-02-25", "50.00", "expense"),
      Row("B", "monthly", "2023-12-31", "-50.00", "expense"),
      Row("A", "monthly", "2024-03-01", "20.00", "income"),
      Row("A", "biweekly", "2024-02-12", "0.00", "income"),
      Row("B", "quarterly", "2023-11-30", "50.00", "expense"),
      Row("A", "semiyearly", "2023-08-31", "20.00", "income"),
      Row("B", "yearly", "2023-02-12", "50.00", "expense") }

\* records with one bad field; NoneValue is a column the row does not have
InvalidRows ==
    { Row("A", "weekly", "2024-02-25", "20.00", "transfer"),
      Row("A", "fortnightly", "2024-02-25", "20.00", "income"),
      Row("B", "weekly", "2024-02-25", "abc", "expense"),
      Row("B", "weekly", "2024-02-25", NoneValue, "expense"),
      Row("A", "weekly", "tomorrow", "20.00", "income"),
      Row("A", "weekly", "2024-02-30", "20.00", "income") }

InputRows == ValidRows \cup InvalidRows

\* the header line of the CSV file; <<NoneValue>> stands for the fieldnames
\* of an empty file, which are None
Headers ==
    { <<"name", "frequency", "next_date", "amount", "transaction_type">>,
      <<"transaction_type", "name", "next_date", "frequency", "amount">>,
      <<"name", "frequency", "next_date", "amount">>,
      <<"name", "frequency", "next_date", "amount", "transaction_type", "note">>,
      <<NoneValue>> }

\* csv.DictReader fills the columns a short row does not have with None:
\* the fields of a row that are None are the last columns of the header
RowFits(row, names) ==
    \A j \in DOMAIN names : \A k \in DOMAIN names :
        (j < k /\ names[j] \in DOMAIN row /\ names[k] \in DOMAIN row
               /\ row[names[j]] = NoneValue) => row[names[k]] = NoneValue

\* --days, validated > 0 by main
Horizons == {5, MaxDays}

\* --start-balance, in cents
StartingBalances == {100000, 0}

\* ------------------------------------------------- RecurringTransaction
NoDiag == [error |-> "", name |-> ""]

\* exit_application(message): the setter that failed and the name it prints
Diag(e, n) == [error |-> e, name |-> n]

\* the exception float(value) raises, "" when it returns
float_raises(value) ==
    IF value = NoneValue THEN "TypeError"
    ELSE IF value \notin DOMAIN FloatText THEN "ValueError" ELSE ""

\* the exception datetime.date.fromisoformat(value) raises, "" when it returns
fromisoformat_raises(value) ==
    IF value = NoneValue THEN "TypeError"
    ELSE IF value \notin DOMAIN IsoText THEN "ValueError"
    ELSE LET t == IsoText[value]
         IN  IF t[2] \in 1..12 /\ t[3] \in 1..monthrange(t[1], t[2])
             THEN "" ELSE "ValueError"

fromisoformat(value) == Date(IsoText[value][1], IsoText[value][2], IsoText[value][3])

transaction_type_valid(value) == value \in {"income", "expense"}

transaction_type_sign(value) == IF value = "income" THEN "+" ELSE "-"

amount_setter_keeps_sign(transaction_type, value) ==
    IF transaction_type = "expense" THEN -FloatText[value] ELSE FloatText[value]

\* the amount setter, once float(value) has returned
amount_setter(transaction_type, value) ==
    IF transaction_type = "expense" THEN -Abs(FloatText[value]) ELSE Abs(FloatText[value])

valid_freq == {"daily", "weekly", "biweekly", "monthly", "quarterly", "semiyearly", "yearly"}

frequency_setter_fixed_days(value) ==
    CASE value = "daily" -> relativedelta(0, 0, 1)
      [] value = "weekly" -> relativedelta(0, 0, 7)
      [] value = "biweekly" -> relativedelta(0, 0, 14)
      [] value = "monthly" -> relativedelta(0, 0, 30)
      [] value = "quarterly" -> relativedelta(0, 0, 91)
      [] value = "semiyearly" -> relativedelta(0, 0, 182)
      [] value = "yearly" -> relativedelta(0, 0, 365)

\* the frequency setter: the calendar step of a frequency
frequency_setter(value) ==
    CASE value = "daily" -> relativedelta(0, 0, 1)
      [] value = "weekly" -> relativedelta(0, 0, 7)
      [] value = "biweekly" -> relativedelta(0, 0, 14)
      [] value = "monthly" -> relativedelta(0, 1, 0)
      [] value = "quarterly" -> relativedelta(0, 3, 0)
      [] value = "semiyearly" -> relativedelta(0, 6, 0)
      [] value = "yearly" -> relativedelta(1, 0, 0)

RECURSIVE next_date_roll_past_today(_, _, _)
next_date_roll_past_today(today, date, frequency) ==
    IF today >= date
    THEN next_date_roll_past_today(today, DatePlus(date, frequency), frequency)
    ELSE date

next_date_roll_once(today, date, frequency) ==
    IF today > date THEN DatePlus(date, frequency) ELSE date

\* the next_date setter's loop: while today > date: date += self.frequency
RECURSIVE next_date_roll(_, _, _)
next_date_roll(today, date, frequency) ==
    IF today > date THEN next_date_roll(today, DatePlus(date, frequency), frequency)
    ELSE date

\* the next_date setter given a text, once fromisoformat(value) has returned
next_date_setter(today, value, frequency) ==
    next_date_roll(today, fromisoformat(value), frequency)

\* the next_date setter given a date object: it keeps a date that is not in
\* the past and passes any other one to fromisoformat, which raises TypeError
next_date_accepts(today, value) == value >= today

\* RecurringTransaction(...) for one row, today being datetime.date.today():
\* the setters run in the order of __init__ and the first that fails ends it
Construct(row, today) ==
    IF ~transaction_type_valid(row.transaction_type)
    THEN [outcome |-> "exit", diag |-> Diag("transaction_type", row.name)]
    ELSE IF float_raises(row.amount) = "ValueError"
    THEN [outcome |-> "exit", diag |-> Diag("amount", row.name)]
    ELSE IF float_raises(row.amount) = "TypeError"
    THEN [outcome |-> "crash", diag |-> Diag("TypeError", "")]
    ELSE IF row.frequency \notin valid_freq
    THEN [outcome |-> "exit", diag |-> Diag("frequency", row.name)]
    ELSE IF fromisoformat_raises(row.next_date) = "ValueError"
    THEN [outcome |-> "exit", diag |-> Diag("next_date", row.name)]
    ELSE IF fromisoformat_raises(row.next_date) = "TypeError"
    THEN [outcome |-> "crash", diag |-> Diag("TypeError", "")]
    ELSE [outcome |-> "ok", diag |-> NoDiag]

\* the transaction a row that passes every setter constructs
Transaction(row, today) ==
    [name |-> row.name,
     transaction_type |-> row.transaction_type,
     sign |-> transaction_type_sign(row.transaction_type),
     amount |-> amount_setter(row.transaction_type, row.amount),
     frequency |-> frequency_setter(row.frequency),
     next_date |-> next_date_setter(today, row.next_date, frequency_setter(row.frequency))]

advance_next_date_two_steps(transaction) ==
    DatePlus(DatePlus(transaction.next_date, transaction.frequency), transaction.frequency)

\* advance_next_date: the value self.next_date + self.frequency it hands to
\* the next_date setter
advance_next_date(transaction) == DatePlus(transaction.next_date, transaction.frequency)

is_due_or_later(transaction, day) == transaction.next_date >= day

is_due(transaction, day) == transaction.next_date = day

\* ------------------------------------------------------------------ Ledger
LedgerEntry(date, name, amount, balance) ==
    [date |-> date, name |-> name, amount |-> amount, balance |-> balance]

validate_input_fields(names) == {names[i] : i \in DOMAIN names} = REQUIRED_INPUT_FIELDS

is_active_exclusive(day, last) == day < last

is_active_one_more_day(day, last) == day <= last + 1

is_active(day, last) == day <= last

date_advance_two_days(day) == day + 2

\* date_advance: current_day + relativedelta(days=1)
date_advance(day) == DatePlus(day, relativedelta(0, 0, 1))

RECURSIVE get_transactions_for_day_reversed(_, _, _)
get_transactions_for_day_reversed(transactions, day, i) ==
    IF i > Len(transactions) THEN << >>
    ELSE IF is_due(transactions[i], day)
         THEN get_transactions_for_day_reversed(transactions, day, i + 1) \o <<i>>
         ELSE get_transactions_for_day_reversed(transactions, day, i + 1)

\* positions, in list order, of the transactions due on a day
RECURSIVE get_transactions_for_day(_, _, _)
get_transactions_for_day(transactions, day, i) ==
    IF i > Len(transactions) THEN << >>
    ELSE IF is_due(transactions[i], day)
         THEN <<i>> \o get_transactions_for_day(transactions, day, i + 1)
         ELSE get_transactions_for_day(transactions, day, i + 1)

log_insert_first(log, entry) == <<entry>> \o log

\* transaction_log.append(entry)
log_append(log, entry) == Append(log, entry)

record_starting_balance_zero_amount(log, day, balance) ==
    log_append(log, LedgerEntry(day, "Opening Balance", 0, balance))

record_starting_balance_to_ledger(log, day, balance) ==
    log_append(log, LedgerEntry(day, "Opening Balance", balance, balance))

record_transaction_balance_kept(balance, transaction) == balance

\* record_transaction: self.current_balance += transaction.amount
record_transaction_balance(balance, transaction) == balance + transaction.amount

record_transaction_entry_old_balance(day, transaction, balance) ==
    LedgerEntry(day, transaction.name, transaction.amount, balance)

\* the entry record_transaction appends, balance being the balance before it
record_transaction_entry(day, transaction, balance) ==
    LedgerEntry(day, transaction.name, transaction.amount, balance + transaction.amount)

\* ------------------------------------------------------------ print_ledger
\* A text is the sequence of its characters; a printed line is the sequence
\* of the texts of the print calls that make it.
DEFAULT_COLUMN_SIZE == 12
COLUMN_BUFFER == 4

Digits == <<"0", "1", "2", "3", "4", "5", "6", "7", "8", "9">>

RECURSIVE NatText(_)
\* the decimal digits of a natural number
NatText(n) ==
    IF n < 10 THEN <<Digits[n + 1]>> ELSE NatText(n \div 10) \o <<Digits[(n % 10) + 1]>>

TwoDigits(n) == <<Digits[(n \div 10) + 1], Digits[(n % 10) + 1]>>

RECURSIVE Repeat(_, _)
Repeat(c, n) == IF n <= 0 THEN << >> ELSE <<c>> \o Repeat(c, n - 1)

\* str.ljust and str.rjust: pad to the width, never cut
ljust(text, width) == text \o Repeat(" ", width - Len(text))

rjust(text, width) == Repeat(" ", width - Len(text)) \o text

\* the characters of the names of the model
NameText ==
    ("A" :> <<"A">>) @@ ("B" :> <<"B">>) @@
    ("Opening Balance" :>
        <<"O", "p", "e", "n", "i", "n", "g", " ", "B", "a", "l", "a", "n", "c", "e">>)

\* str(x) of a float of cents/100: at least one decimal, no trailing zero
float_str(cents) ==
    (IF cents < 0 THEN <<"-">> ELSE << >>)
    \o NatText(Abs(cents) \div 100) \o <<".">>
    \o (IF Abs(cents) % 10 = 0 THEN <<Digits[((Abs(cents) % 100) \div 10) + 1]>>
        ELSE TwoDigits(Abs(cents) % 100))

RECURSIVE GroupThousands(_)
\* the digits of a natural number with a comma before every group of three
GroupThousands(n) ==
    IF n < 1000 THEN NatText(n)
    ELSE GroupThousands(n \div 1000) \o <<",">>
         \o <<Digits[((n % 1000) \div 100) + 1]>> \o TwoDigits(n % 100)

format_money_unsigned(cents, width) ==
    rjust(GroupThousands(Abs(cents) \div 100) \o <<".">> \o TwoDigits(Abs(cents) % 100), width)

\* format(x, ">{width},.2f")
format_money(cents, width) ==
    rjust((IF cents < 0 THEN <<"-">> ELSE << >>)
          \o GroupThousands(Abs(cents) \div 100) \o <<".">> \o TwoDigits(Abs(cents) % 100),
          width)

\* date.strftime('%Y-%m-%d')
strftime(d) ==
    NatText(YMD[d][1]) \o <<"-">> \o TwoDigits(YMD[d][2]) \o <<"-">> \o TwoDigits(YMD[d][3])

Max(a, b) == IF a >= b THEN a ELSE b

RECURSIVE LongestText(_, _, _)
LongestText(log, column, k) ==
    IF k > Len(log) THEN 0
    ELSE Max((CASE column = "name" -> Len(NameText[log[k].name])
                [] column = "amount" -> Len(float_str(log[k].amount))
                [] column = "balance" -> Len(float_str(log[k].balance))),
             LongestText(log, column, k + 1))

\* get_max_column_size: the longest str() of a column, the default for an
\* empty ledger
get_max_column_size(log, column) ==
    IF log = << >> THEN DEFAULT_COLUMN_SIZE ELSE LongestText(log, column, 1)

\* the lines print_ledger prints for a ledger
print_ledger(log) ==
    LET max_date == 10 + COLUMN_BUFFER
        max_name == get_max_column_size(log, "name") + COLUMN_BUFFER
        max_amount == get_max_column_size(log, "amount") + COLUMN_BUFFER
        max_balance == get_max_column_size(log, "balance") + COLUMN_BUFFER
        header == ljust(<<"D", "a", "t", "e">>, max_date)
                  \o ljust(<<"N", "a", "m", "e">>, max_name)
                  \o rjust(<<"A", "m", "o", "u", "n", "t">>, max_amount + 1)
                  \o rjust(<<"B", "a", "l", "a", "n", "c", "e">>, max_balance + 3)
    IN  << <<header>>, <<Repeat("-", Len(header))>> >>
        \o [k \in 1..Len(log) |->
              << ljust(strftime(log[k].date), max_date),
                 ljust(NameText[log[k].name], max_name),
                 <<"$">> \o format_money(log[k].amount, max_amount),
                 <<" ", " ", "$">> \o format_money(log[k].balance, max_balance) >>]

\* ----------------------------------------------------------- export_ledger
NoFile == [fieldnames |-> << >>, rows |-> << >>]

\* what --export can name: nothing, a path that can be written, a path in a
\* directory that does not exist, a path that cannot be opened for writing
ExportPaths == {"", "out.csv", "missing/out.csv", "/proc/out.csv"}

\* export_ledger(path): how it ends, what it prints and what it writes
export_ledger(log, path) ==
    IF log = << >>
    THEN [status |-> "crash", diag |-> Diag("IndexError", ""), file |-> NoFile]
    ELSE IF path = "missing/out.csv"
    THEN [status |-> "exit", diag |-> Diag("Unable to write to the export location", ""),
          file |-> NoFile]
    ELSE IF path = "/proc/out.csv"
    THEN [status |-> "exit", diag |-> Diag("An unexpected error occurred", ""),
          file |-> NoFile]
    ELSE [status |-> "exported", diag |-> NoDiag,
          file |-> [fieldnames |-> <<"date", "name", "amount", "balance">>, rows |-> log]]

\* ------------------------------------------------------------------- state
VARIABLES
    clock,                  \* datetime.date.today() at this moment
    status,                 \* where the program is
    fieldnames,             \* the header of the CSV file
    csv_rows,               \* the rows read from the CSV file so far
    days,                   \* Ledger.days
    starting_balance,       \* Ledger.starting_balance
    current_day,            \* Ledger.current_day
    end_day,                \* Ledger.end_day
    transaction_list,       \* import_transactions' local list
    recurring_transactions, \* Ledger.recurring_transactions
    transaction_log,        \* Ledger.transaction_log
    current_balance,        \* Ledger.current_balance (0 until it is assigned)
    due,                    \* run_loop's local transaction_list, as positions
    diag,                   \* what the program printed when it stopped
    iterations,             \* history: the turns of run_loop's while loop begun
    output,                 \* the lines the latest print_ledger printed
    previous_output,        \* the lines the print_ledger before it printed
    export_path,            \* args.export, known once main reaches it
    export_file,            \* the file export_ledger wrote
    built,                  \* history: per transaction, today at construction and the next_date resolved
    posted_by               \* history: per ledger entry, the position of its transaction (0: Opening Balance)

vars == <<clock, status, fieldnames, csv_rows, days, starting_balance, current_day,
          end_day, transaction_list, recurring_transactions, transaction_log,
          current_balance, due, diag, iterations, output, previous_output,
          export_path, export_file, built, posted_by>>

io_vars == <<output, previous_output, export_path, export_file>>

ledger_vars == <<recurring_transactions, transaction_log, current_balance, due, posted_by,
                 current_day, iterations>>

\* main has parsed the arguments and Ledger.__init__ has run up to the call of
\* import_transactions
Init ==
    /\ clock = Today
    /\ status = "open"
    /\ fieldnames \in Headers
    /\ csv_rows = << >>
    /\ days \in Horizons
    /\ starting_balance \in StartingBalances
    /\ current_day = Today
    /\ end_day = Today + days
    /\ transaction_list = << >>
    /\ recurring_transactions = << >>
    /\ transaction_log = << >>
    /\ current_balance = 0
    /\ due = << >>
    /\ diag = NoDiag
    /\ iterations = 0
    /\ output = << >>
    /\ previous_output = << >>
    /\ export_path = ""
    /\ export_file = NoFile
    /\ built = << >>
    /\ posted_by = << >>

\* the wall clock passes midnight (at most once while the program runs)
Midnight ==
    /\ UNCHANGED io_vars
    /\ status \in {"open", "rows", "while", "for"}
    /\ clock = Today
    /\ clock' = clock + 1
    /\ UNCHANGED <<status, fieldnames, csv_rows, days, starting_balance, end_day,
                   transaction_list, diag, built>>
    /\ UNCHANGED ledger_vars

\* import_transactions opens the file and checks its header
ValidateInputFields ==
    /\ UNCHANGED io_vars
    /\ status = "open"
    /\ IF fieldnames = <<NoneValue>>
       THEN status' = "crash" /\ diag' = Diag("TypeError", "")
       ELSE IF validate_input_fields(fieldnames)
            THEN status' = "rows" /\ diag' = diag
            ELSE status' = "exit" /\ diag' = Diag("fields", "")
    /\ UNCHANGED <<clock, fieldnames, csv_rows, days, starting_balance, end_day,
                   transaction_list, built>>
    /\ UNCHANGED ledger_vars

\* one turn of import_transactions' loop: the next row constructs a
\* transaction, or the setter that rejects it ends the program
ImportRow ==
    /\ UNCHANGED io_vars
    /\ status = "rows"
    /\ Len(csv_rows) < MaxRows
    /\ \E row \in InputRows :
         LET r == Construct(row, clock) IN
           /\ RowFits(row, fieldnames)
           /\ csv_rows' = Append(csv_rows, row)
           /\ IF r.outcome = "ok"
              THEN /\ transaction_list' = Append(transaction_list, Transaction(row, clock))
                   /\ built' = Append(built, [today |-> clock,
                                              first |-> Transaction(row, clock).next_date])
                   /\ UNCHANGED <<status, diag>>
              ELSE /\ status' = r.outcome
                   /\ diag' = r.diag
                   /\ UNCHANGED <<transaction_list, built>>
    /\ UNCHANGED <<clock, fieldnames, days, starting_balance, end_day>>
    /\ UNCHANGED ledger_vars

\* the file has no more rows: import_transactions returns and __init__
\* sets the balance and records the Opening Balance entry
ImportDone ==
    /\ UNCHANGED io_vars
    /\ status = "rows"
    /\ recurring_transactions' = transaction_list
    /\ current_balance' = starting_balance
    /\ transaction_log' =
         record_starting_balance_to_ledger(transaction_log, current_day, starting_balance)
    /\ posted_by' = Append(posted_by, 0)
    /\ status' = "while"
    /\ UNCHANGED <<clock, fieldnames, csv_rows, days, starting_balance, current_day,
                   end_day, transaction_list, due, diag, iterations, built>>

\* run_loop: the loop test holds and the day's due transactions are collected
LoopEnter ==
    /\ UNCHANGED io_vars
    /\ status = "while"
    /\ is_active(current_day, end_day)
    /\ due' = get_transactions_for_day(recurring_transactions, current_day, 1)
    /\ status' = "for"
    /\ iterations' = iterations + 1
    /\ UNCHANGED <<clock, fieldnames, csv_rows, days, starting_balance, current_day,
                   end_day, transaction_list, recurring_transactions, transaction_log,
                   current_balance, diag, built, posted_by>>

RecordTransactionAdvancingAll ==
    /\ UNCHANGED io_vars
    /\ status = "for"
    /\ due # << >>
    /\ LET i == Head(due)
           transaction == recurring_transactions[i]
       IN  /\ current_balance' = record_transaction_balance(current_balance, transaction)
           /\ transaction_log' =
                log_append(transaction_log,
                           record_transaction_entry(current_day, transaction, current_balance))
           /\ posted_by' = Append(posted_by, i)
           /\ recurring_transactions' =
                [j \in DOMAIN recurring_transactions |->
                   [recurring_transactions[j] EXCEPT
                      !.next_date = advance_next_date(recurring_transactions[j])]]
           /\ due' = Tail(due)
    /\ UNCHANGED <<clock, status, diag, fieldnames, csv_rows, days, starting_balance,
                   current_day, end_day, transaction_list, iterations, built>>

\* run_loop: record_transaction for the next due transaction, with the
\* advance_next_date that ends it
RecordTransaction ==
    /\ UNCHANGED io_vars
    /\ status = "for"
    /\ due # << >>
    /\ LET i == Head(due)
           transaction == recurring_transactions[i]
           value == advance_next_date(transaction)
       IN  /\ current_balance' = record_transaction_balance(current_balance, transaction)
           /\ transaction_log' =
                log_append(transaction_log,
                           record_transaction_entry(current_day, transaction, current_balance))
           /\ posted_by' = Append(posted_by, i)
           /\ IF next_date_accepts(clock, value)
              THEN /\ recurring_transactions' =
                        [recurring_transactions EXCEPT ![i].next_date = value]
                   /\ due' = Tail(due)
                   /\ UNCHANGED <<status, diag>>
              ELSE /\ status' = "crash"
                   /\ diag' = Diag("TypeError", "")
                   /\ UNCHANGED <<recurring_transactions, due>>
    /\ UNCHANGED <<clock, fieldnames, csv_rows, days, starting_balance, current_day,
                   end_day, transaction_list, iterations, built>>

\* run_loop: the day's transactions are recorded, date_advance
DateAdvance ==
    /\ UNCHANGED io_vars
    /\ status = "for"
    /\ due = << >>
    /\ current_day' = date_advance(current_day)
    /\ status' = "while"
    /\ UNCHANGED <<clock, fieldnames, csv_rows, days, starting_balance, end_day,
                   transaction_list, recurring_transactions, transaction_log,
                   current_balance, due, diag, iterations, built, posted_by>>

\* run_loop: the loop test fails and run_loop returns
LoopExit ==
    /\ UNCHANGED io_vars
    /\ status = "while"
    /\ ~is_active(current_day, end_day)
    /\ status' = "done"
    /\ UNCHANGED <<clock, fieldnames, csv_rows, days, starting_balance, current_day,
                   end_day, transaction_list, recurring_transactions, transaction_log,
                   current_balance, due, diag, iterations, built, posted_by>>

PrintLedgerDraining ==
    /\ status \in {"done", "printed"}
    /\ output' = print_ledger(transaction_log)
    /\ previous_output' = output
    /\ status' = "printed"
    /\ transaction_log' = << >>
    /\ posted_by' = << >>
    /\ UNCHANGED <<clock, fieldnames, csv_rows, days, starting_balance, current_day,
                   end_day, transaction_list, recurring_transactions,
                   current_balance, due, diag, iterations, export_path, export_file,
                   built>>

\* main: ledger.print_ledger(); a caller may print a ledger again
PrintLedger ==
    /\ status \in {"done", "printed"}
    /\ output' = print_ledger(transaction_log)
    /\ previous_output' = output
    /\ status' = "printed"
    /\ UNCHANGED <<clock, fieldnames, csv_rows, days, starting_balance, current_day,
                   end_day, transaction_list, recurring_transactions, transaction_log,
                   current_balance, due, diag, iterations, export_path, export_file,
                   built, posted_by>>

\* main: if args.export: ledger.export_ledger(args.export), right after its
\* print_ledger; then main returns
ExportLedger ==
    /\ status = "printed"
    /\ previous_output = << >>
    /\ \E path \in ExportPaths :
         /\ export_path' = path
         /\ IF path = ""
            THEN status' = "returned" /\ UNCHANGED <<diag, export_file>>
            ELSE /\ status' = export_ledger(transaction_log, path).status
                 /\ diag' = export_ledger(transaction_log, path).diag
                 /\ export_file' = export_ledger(transaction_log, path).file
    /\ UNCHANGED <<clock, fieldnames, csv_rows, days, starting_balance, current_day,
                   end_day, transaction_list, recurring_transactions, transaction_log,
                   current_balance, due, iterations, output, previous_output,
                   built, posted_by>>

Next ==
    \/ Midnight
    \/ ValidateInputFields
    \/ ImportRow
    \/ ImportDone
    \/ LoopEnter
    \/ RecordTransaction
    \/ DateAdvance
    \/ LoopExit
    \/ PrintLedger
    \/ ExportLedger

Spec == Init /\ [][Next]_vars

\* run_loop is sequential code: a step of it that can be taken is taken
RunLoopStep == LoopEnter \/ RecordTransaction \/ DateAdvance \/ LoopExit

\* the starting balance plays no part in what run_loop does next: the runs
\* under fairness start from one starting balance
FairInit == Init /\ starting_balance # 0

FairSpec == FairInit /\ [][Next]_vars /\ WF_vars(RunLoopStep)

\* export_ledger as a method of a ledger: the entries a ledger may hold
ExportEntries ==
    {LedgerEntry(date, name, amount, amount) :
        date \in {Today, Today + 1}, name \in {"A", "B"}, amount \in {5000, -2000}}

\* the ledgers export_ledger is called with, the empty one among them
ExportLedgers ==
    {<< >>} \cup {<<e>> : e \in ExportEntries}
            \cup {<<e, f>> : e \in ExportEntries, f \in ExportEntries}

\* a ledger that has been printed, whatever it holds
ExportInit ==
    /\ clock = Today
    /\ status = "printed"
    /\ fieldnames = <<NoneValue>>
    /\ csv_rows = << >>
    /\ days \in Horizons
    /\ starting_balance = 0
    /\ current_day = Today + days + 1
    /\ end_day = Today + days
    /\ transaction_list = << >>
    /\ recurring_transactions = << >>
    /\ transaction_log \in ExportLedgers
    /\ current_balance = 0
    /\ due = << >>
    /\ diag = NoDiag
    /\ iterations = days + 1
    /\ output = print_ledger(transaction_log)
    /\ previous_output = << >>
    /\ export_path = ""
    /\ export_file = NoFile
    /\ built = << >>
    /\ posted_by = [k \in 1..Len(transaction_log) |-> 0]

\* export_ledger applied to each of these ledgers and each destination
ExportSpec == ExportInit /\ [][ExportLedger]_vars

TypeOK ==
    /\ status \in {"open", "rows", "while", "for", "done", "printed", "exported",
                    "returned", "exit", "crash"}
    /\ clock \in {Today, Today + 1}
    /\ Len(posted_by) = Len(transaction_log)
    /\ Len(built) = Len(transaction_list)

\* ------------------------------------------------------------- properties
\* the day the simulation starts: Ledger.current_day as __init__ set it
StartDay == end_day - days

\* Initialize has completed
Initialized ==
    \/ status \in {"while", "for", "done", "printed", "exported", "returned"}
    \/ export_path # ""

\* run_loop has returned
LoopEnded ==
    \/ status \in {"done", "printed", "exported", "returned"}
    \/ export_path # ""

RECURSIVE SumAmounts(_, _, _)
\* the sum of the amounts of the entries from..to of a ledger
SumAmounts(log, from, to) ==
    IF to < from THEN 0 ELSE SumAmounts(log, from, to - 1) + log[to].amount

\* the ledger positions of the entries transaction i posted
EntriesOf(i) == {k \in 1..Len(transaction_log) : posted_by[k] = i}

\* the dates on which transaction i has a ledger entry
PostDates(i) == {transaction_log[k].date : k \in EntriesOf(i)}

RECURSIVE OccurrenceDates(_, _, _)
\* d, d + step, (d + step) + step, ... up to the date last
OccurrenceDates(d, frequency, last) ==
    IF d > last THEN {}
    ELSE {d} \cup OccurrenceDates(DatePlus(d, frequency), frequency, last)

RECURSIVE Steps(_, _, _)
\* n successive applications of a recurrence step to the date d
Steps(d, frequency, n) ==
    IF n = 0 THEN d ELSE Steps(DatePlus(d, frequency), frequency, n - 1)

\* C1: once Initialize has completed, and in every later state, the first
\* ledger entry is the Opening Balance entry, dated with the day the
\* simulation starts, its amount and its balance both the starting balance,
\* and it is no transaction's posting; before that the ledger is empty.
C1_OpeningBalanceFirst ==
    /\ Initialized =>
         /\ Len(transaction_log) >= 1
         /\ transaction_log[1] =
              LedgerEntry(StartDay, "Opening Balance", starting_balance, starting_balance)
         /\ posted_by[1] = 0
         /\ \A k \in 2..Len(transaction_log) : posted_by[k] # 0
    /\ ~Initialized => transaction_log = << >>

C1_Witness ==
    /\ status = "done"
    /\ starting_balance # 0
    /\ Len(transaction_log) >= 3
    /\ transaction_log[2].date = StartDay

\* C2 as stated: the balance of entry k is the starting balance plus the
\* sum of the amounts of entries 1..k, the Opening Balance entry included.
C2_BalanceIsStartPlusAllAmounts ==
    \A k \in 1..Len(transaction_log) :
        transaction_log[k].balance = starting_balance + SumAmounts(transaction_log, 1, k)

\* C2 amended: the balance of entry k is the starting balance plus the sum
\* of the amounts of entries 2..k; the amount of the Opening Balance entry,
\* which is the starting balance itself, is not added a second time.
C2_BalanceIsStartPlusPostedAmounts ==
    \A k \in 1..Len(transaction_log) :
        transaction_log[k].balance = starting_balance + SumAmounts(transaction_log, 2, k)

C2_Witness ==
    /\ starting_balance # 0
    /\ Len(transaction_log) >= 4
    /\ \E k \in 2..Len(transaction_log) : transaction_log[k].amount > 0
    /\ \E k \in 2..Len(transaction_log) : transaction_log[k].amount < 0

\* C3: when run_loop has finished, the dates on which a transaction has a
\* ledger entry are exactly its occurrences d0, d0 + step, ... (d0 the
\* next_date its construction resolved) that lie in [today, end_day]; and
\* a single weekly expense of 50 due today, with starting balance 1000 and
\* horizon 5, leaves exactly the Opening Balance entry and one -50/950 entry.
C3_PostingsAreTheOccurrences ==
    LoopEnded =>
      /\ \A i \in 1..Len(recurring_transactions) :
           PostDates(i) =
             {d \in OccurrenceDates(built[i].first, recurring_transactions[i].frequency,
                                    end_day) : d >= StartDay}
      /\ ( /\ Len(recurring_transactions) = 1
           /\ recurring_transactions[1].frequency = relativedelta(0, 0, 7)
           /\ recurring_transactions[1].amount = -5000
           /\ built[1].first = StartDay
           /\ starting_balance = 100000
           /\ days = 5 )
         => transaction_log =
              << LedgerEntry(StartDay, "Opening Balance", 100000, 100000),
                 LedgerEntry(StartDay, recurring_transactions[1].name, -5000, 95000) >>

C3_Witness ==
    /\ status = "done"
    /\ Len(recurring_transactions) = 2
    /\ Cardinality(PostDates(1)) >= 2
    /\ PostDates(2) = {}
    /\ recurring_transactions[1].frequency = relativedelta(0, 0, 7)

\* C4: ledger entries that follow one another with the same date are in the
\* order of the transactions in the input, and the balance is cumulative in
\* that order: the balance of an entry is the balance of the entry before it
\* plus its own amount.
C4_SameDayInputOrder ==
    \A k \in 1..(Len(transaction_log) - 1) :
        /\ transaction_log[k].date = transaction_log[k + 1].date
             => posted_by[k] < posted_by[k + 1]
        /\ transaction_log[k + 1].balance =
             transaction_log[k].balance + transaction_log[k + 1].amount

C4_Witness ==
    \E k \in 2..(Len(transaction_log) - 1) :
        /\ transaction_log[k].date = transaction_log[k + 1].date
        /\ transaction_log[k].date = StartDay + 4
        /\ posted_by[k] = 1
        /\ posted_by[k + 1] = 2
        /\ transaction_log[k].amount # 0

\* C5: the horizon is inclusive. When run_loop has finished, a transaction
\* one of whose due dates is end_day has an entry dated end_day, and a
\* monthly one whose resolved next_date was end_day has exactly one entry,
\* dated end_day.
C5_EndDayInclusive ==
    LoopEnded =>
      \A i \in 1..Len(recurring_transactions) :
        /\ end_day \in OccurrenceDates(built[i].first,
                                       recurring_transactions[i].frequency, end_day)
             => \E k \in EntriesOf(i) : transaction_log[k].date = end_day
        /\ ( /\ built[i].first = end_day
             /\ recurring_transactions[i].frequency = relativedelta(0, 1, 0) )
             => /\ Cardinality(EntriesOf(i)) = 1
                /\ PostDates(i) = {end_day}

C5_Witness ==
    /\ status = "done"
    /\ \E i \in 1..Len(recurring_transactions) :
         /\ recurring_transactions[i].frequency = relativedelta(0, 1, 0)
         /\ fromisoformat(csv_rows[i].next_date) = StartDay + days
         /\ built[i].first = end_day
         /\ Cardinality(EntriesOf(i)) = 1

\* the transactions constructed so far
Constructed ==
    IF Initialized THEN recurring_transactions ELSE transaction_list

\* C6: the sign of a stored amount comes from the kind alone: an income has
\* amount >= 0, an expense amount <= 0, the magnitude is the absolute value
\* of the parsed input, and every ledger entry of a transaction carries the
\* transaction's amount.
C6_SignFollowsKind ==
    /\ \A i \in 1..Len(Constructed) :
         LET t == Constructed[i] IN
           /\ t.transaction_type \in {"income", "expense"}
           /\ t.transaction_type = "income" =>
                t.amount >= 0 /\ t.amount = Abs(FloatText[csv_rows[i].amount])
           /\ t.transaction_type = "expense" =>
                t.amount <= 0 /\ t.amount = -Abs(FloatText[csv_rows[i].amount])
    /\ \A k \in 2..Len(transaction_log) :
         transaction_log[k].amount = recurring_transactions[posted_by[k]].amount

C6_Witness ==
    \E k \in 2..Len(transaction_log) : \E j \in 2..Len(transaction_log) :
        /\ recurring_transactions[posted_by[k]].transaction_type = "income"
        /\ FloatText[csv_rows[posted_by[k]].amount] < 0
        /\ transaction_log[k].amount > 0
        /\ recurring_transactions[posted_by[j]].transaction_type = "expense"
        /\ FloatText[csv_rows[posted_by[j]].amount] > 0
        /\ transaction_log[j].amount < 0

\* C7: a supplied next_date that is before today resolves to a date >= today
\* that is the supplied date after n >= 1 successive recurrence steps, the
\* date after n - 1 steps being still before today; a supplied date that is
\* today or later is kept.  (Stated of the transactions import_transactions
\* has constructed, while it constructs them.)
C7_RollForwardWholeSteps ==
    status = "rows" =>
    \A i \in 1..Len(transaction_list) :
        LET supplied == fromisoformat(csv_rows[i].next_date)
            today == built[i].today
            step == transaction_list[i].frequency
        IN  IF supplied >= today
            THEN built[i].first = supplied
            ELSE /\ built[i].first >= today
                 /\ \E n \in 1..Min(today - supplied, 9) :
                      /\ Steps(supplied, step, n) = built[i].first
                      /\ Steps(supplied, step, n - 1) < today

C7_Witness ==
    /\ status = "rows"
    /\ \E i \in 1..Len(transaction_list) : \E j \in 1..Len(transaction_list) :
        /\ fromisoformat(csv_rows[i].next_date) < built[i].today
        /\ built[i].first = Steps(fromisoformat(csv_rows[i].next_date),
                                  transaction_list[i].frequency, 2)
        /\ built[i].first > built[i].today
        /\ fromisoformat(csv_rows[j].next_date) = built[j].today
        /\ built[j].first = built[j].today

\* the set of fields of the header; an empty file has none
FieldSet == IF fieldnames = <<NoneValue>> THEN {} ELSE {fieldnames[j] : j \in DOMAIN fieldnames}

\* C8: a header whose field set is not the required one ends the run with
\* the field-mismatch diagnostic, no transaction constructed and no ledger
\* entry made; a header with exactly the required fields, in any order, does
\* not end it so.
C8_FieldMismatchDiagnostic ==
    status # "open" =>
      /\ FieldSet # REQUIRED_INPUT_FIELDS =>
           /\ status = "exit"
           /\ diag = Diag("fields", "")
           /\ csv_rows = << >>
           /\ transaction_list = << >>
           /\ transaction_log = << >>
      /\ FieldSet = REQUIRED_INPUT_FIELDS => diag # Diag("fields", "")

\* what C8 says holds of every file that has a header line
FieldMismatchDiagnosticGivenHeader ==
    fieldnames # <<NoneValue>> => C8_FieldMismatchDiagnostic

\* a row has been read that constructed no transaction
RowRejected == Len(csv_rows) > Len(transaction_list)

\* C9: a record with an invalid kind, an invalid frequency, an unparseable
\* amount or a malformed next_date ends the run in the construction of that
\* record with a diagnostic that names the transaction; no transaction
\* enters the simulation, no step is executed, no ledger entry is made.
C9_BadRecordAbortsWithDiagnostic ==
    RowRejected =>
      /\ status = "exit"
      /\ diag.error \in {"transaction_type", "amount", "frequency", "next_date"}
      /\ diag.name = csv_rows[Len(csv_rows)].name
      /\ recurring_transactions = << >>
      /\ transaction_log = << >>
      /\ current_day = StartDay

\* what C9 says holds of every record rejected by exit_application, that is
\* of every bad record whose fields are all present
BadRecordAbortsGivenFullRow ==
    status # "crash" => C9_BadRecordAbortsWithDiagnostic

\* every entry of the ledger is dated no earlier than the entry before it
Chronological ==
    \A i \in 1..Len(transaction_log) : \A j \in 1..Len(transaction_log) :
        i < j => transaction_log[i].date <= transaction_log[j].date

\* a step leaves the ledger as it is or adds entries at its end
AppendOnly ==
    /\ Len(transaction_log') >= Len(transaction_log)
    /\ SubSeq(transaction_log', 1, Len(transaction_log)) = transaction_log

\* C10: the ledger is append-only and chronologically non-decreasing: every
\* step keeps the entries it finds, in their positions and unchanged, and
\* the date of an entry is never later than the date of an entry after it.
C10_AppendOnlyChronological == [](Chronological) /\ [][AppendOnly]_vars

C10_Witness ==
    /\ Len(transaction_log) >= 4
    /\ transaction_log[2].date < transaction_log[3].date
    /\ transaction_log[3].date = transaction_log[4].date

\* C11: run_loop terminates, after exactly days + 1 turns of its loop: a
\* turn moves current_day by one day, whether or not a transaction was due,
\* the loop is not left while current_day <= end_day, and when it is left
\* current_day is the day after end_day.
C11_LoopRunsDaysPlusOneTurns ==
    /\ [](LoopEnded => /\ iterations = days + 1
                       /\ current_day = end_day + 1)
    /\ [](Initialized => /\ current_day \in StartDay..(end_day + 1)
                         /\ iterations =
                              (current_day - StartDay) + (IF status = "for" THEN 1 ELSE 0))
    /\ [][status' = "done" /\ status # "done" => current_day > end_day]_vars
    /\ (status = "while" ~> status = "done")

C11_Witness ==
    /\ status = "done"
    /\ days = 5
    /\ iterations = 6
    /\ Len(transaction_log) = 1
    /\ Len(recurring_transactions) = 1

\* C13: while the loop runs, no transaction's next_date is before
\* current_day, so the equality test of is_due misses no occurrence: a
\* transaction that is not due today is due on a later day.
C13_NeverOverdue ==
    Initialized =>
      \A i \in 1..Len(recurring_transactions) :
        /\ recurring_transactions[i].next_date >= current_day
        /\ (status = "while" /\ ~is_due(recurring_transactions[i], current_day))
             => recurring_transactions[i].next_date > current_day

C13_Witness ==
    /\ status = "while"
    /\ current_day > StartDay
    /\ \E i \in 1..Len(recurring_transactions) :
         /\ fromisoformat(csv_rows[i].next_date) < StartDay
         /\ recurring_transactions[i].next_date = current_day
         /\ EntriesOf(i) # {}

\* the next_date of transaction i changes in this step
Advances(i) == recurring_transactions'[i].next_date # recurring_transactions[i].next_date

\* C14: a firing advances the transaction's next_date once, by one
\* recurrence step, in the step that has updated the balance and appended
\* the entry dated with the date that was due (= current_day); nothing else
\* changes a next_date, so it only grows and the transaction has advanced
\* as many times as it has ledger entries.
C14_OneAdvancePerFiring ==
    /\ [](Initialized =>
            \A i \in 1..Len(recurring_transactions) :
              recurring_transactions[i].next_date =
                Steps(built[i].first, recurring_transactions[i].frequency,
                      Cardinality(EntriesOf(i))))
    /\ [][Initialized =>
            \A i \in 1..Len(recurring_transactions) :
              /\ Advances(i) =>
                   /\ recurring_transactions'[i].next_date =
                        DatePlus(recurring_transactions[i].next_date,
                                 recurring_transactions[i].frequency)
                   /\ recurring_transactions'[i].next_date >
                        recurring_transactions[i].next_date
                   /\ Len(transaction_log') = Len(transaction_log) + 1
                   /\ posted_by'[Len(posted_by')] = i
                   /\ transaction_log'[Len(transaction_log')].date =
                        recurring_transactions[i].next_date
                   /\ transaction_log'[Len(transaction_log')].date = current_day
                   /\ transaction_log'[Len(transaction_log')].balance = current_balance'
                   /\ current_balance' = current_balance + recurring_transactions[i].amount
              /\ (Len(transaction_log') > Len(transaction_log)
                    /\ posted_by'[Len(posted_by')] = i) => Advances(i)]_vars

C14_Witness ==
    \E i \in 1..Len(recurring_transactions) :
        /\ Cardinality(EntriesOf(i)) = 3
        /\ recurring_transactions[i].next_date = built[i].first + 3
        /\ status = "for"

\* C16: every ledger entry is dated within [today, end_day]: nothing is
\* posted for an occurrence before today and nothing after end_day.
C16_EntriesWithinHorizon ==
    \A k \in 1..Len(transaction_log) :
        /\ transaction_log[k].date >= StartDay
        /\ transaction_log[k].date <= end_day

C16_Witness ==
    /\ status = "done"
    /\ \E k \in 2..Len(transaction_log) : \E i \in 1..Len(recurring_transactions) :
         /\ transaction_log[k].date = end_day
         /\ fromisoformat(csv_rows[i].next_date) < StartDay
         /\ recurring_transactions[i].next_date > end_day
         /\ EntriesOf(i) # {}

\* C19: from the second entry on, the balance of an entry is the balance of
\* the entry before it plus its own amount, and the running balance is the
\* balance of the last entry, that is the starting balance plus the amounts
\* of the entries of transactions.
C19_RunningBalanceIsLastBalance ==
    Initialized =>
      /\ \A k \in 2..Len(transaction_log) :
           transaction_log[k].balance =
             transaction_log[k - 1].balance + transaction_log[k].amount
      /\ current_balance = transaction_log[Len(transaction_log)].balance
      /\ current_balance =
           starting_balance + SumAmounts(transaction_log, 2, Len(transaction_log))

C19_Witness ==
    /\ status = "for"
    /\ Len(transaction_log) >= 3
    /\ current_balance # starting_balance
    /\ starting_balance # 0
    /\ due # << >>

\* C20: a transaction is posted at most once on a day: the ledger has no two
\* entries of one transaction with one date; the list of due transactions is
\* fixed when the day's recording starts and only shrinks from its head; and
\* recording a transaction changes nothing of another transaction and, of
\* its own, only the next_date, to a date after current_day.
C20_OncePerDay ==
    /\ [](\A k \in 2..Len(transaction_log) : \A j \in 2..Len(transaction_log) :
             (k # j /\ posted_by[k] = posted_by[j])
                => transaction_log[k].date # transaction_log[j].date)
    /\ [][(status = "for" /\ Len(transaction_log') > Len(transaction_log)) =>
            /\ due' = Tail(due)
            /\ posted_by'[Len(posted_by')] = Head(due)
            /\ \A i \in 1..Len(recurring_transactions) :
                 IF i = Head(due)
                 THEN /\ recurring_transactions'[i] =
                           [recurring_transactions[i] EXCEPT
                              !.next_date = recurring_transactions'[i].next_date]
                      /\ recurring_transactions'[i].next_date > current_day
                 ELSE recurring_transactions'[i] = recurring_transactions[i]]_vars

C20_Witness ==
    /\ status = "for"
    /\ Len(due) = 1
    /\ Len(recurring_transactions) = 2
    /\ recurring_transactions[1].frequency = relativedelta(0, 0, 1)
    /\ Cardinality(EntriesOf(1)) >= 2
    /\ Head(due) = 2
    /\ transaction_log[Len(transaction_log)].date = current_day

\* the last day of the month of a year: the day before the 1st of the next
LastDayOfMonth(y, m) ==
    IF m = 12 THEN 31 ELSE YMD[Date(y, m + 1, 1) - 1][3]

\* the date k calendar months after d: the same day of the month, or the
\* last day of the target month when it has no such day
AddMonths(d, k) ==
    LET t == YMD[d][1] * 12 + (YMD[d][2] - 1) + k
        y == t \div 12
        m == (t % 12) + 1
    IN  Date(y, m, IF YMD[d][3] > LastDayOfMonth(y, m) THEN LastDayOfMonth(y, m) ELSE YMD[d][3])

\* the step the text of a frequency stands for
CalendarStep(text, d) ==
    CASE text = "daily" -> d + 1
      [] text = "weekly" -> d + 7
      [] text = "biweekly" -> d + 14
      [] text = "monthly" -> AddMonths(d, 1)
      [] text = "quarterly" -> AddMonths(d, 3)
      [] text = "semiyearly" -> AddMonths(d, 6)
      [] text = "yearly" -> AddMonths(d, 12)

RECURSIVE CalendarSteps(_, _, _)
CalendarSteps(text, d, n) ==
    IF n = 0 THEN d ELSE CalendarSteps(text, CalendarStep(text, d), n - 1)

\* one step of each frequency from given dates, as the program computes it
StepExamples ==
    /\ DatePlus(Date(2024, 1, 31), frequency_setter("monthly")) = Date(2024, 2, 29)
    /\ DatePlus(Date(2023, 1, 31), frequency_setter("monthly")) = Date(2023, 2, 28)
    /\ DatePlus(Date(2024, 2, 29), frequency_setter("monthly")) = Date(2024, 3, 29)
    /\ DatePlus(Date(2024, 12, 15), frequency_setter("monthly")) = Date(2025, 1, 15)
    /\ DatePlus(Date(2023, 11, 30), frequency_setter("quarterly")) = Date(2024, 2, 29)
    /\ DatePlus(Date(2024, 8, 31), frequency_setter("semiyearly")) = Date(2025, 2, 28)
    /\ DatePlus(Date(2024, 2, 29), frequency_setter("yearly")) = Date(2025, 2, 28)
    /\ DatePlus(Date(2024, 2, 25), frequency_setter("daily")) = Date(2024, 2, 26)
    /\ DatePlus(Date(2024, 2, 25), frequency_setter("weekly")) = Date(2024, 3, 3)
    /\ DatePlus(Date(2024, 2, 25), frequency_setter("biweekly")) = Date(2024, 3, 10)

\* C15: the recurrence step is calendar arithmetic: daily, weekly and
\* biweekly add 1, 7 and 14 days; monthly, quarterly, semiyearly and yearly
\* add 1, 3, 6 and 12 calendar months, keeping the day of the month or taking
\* the last day of a shorter month (Jan 31 + 1 month = Feb 28 or 29).  A
\* step starts from the result of the step before: the resolved next_date is
\* the supplied date after whole calendar steps, and every advance is one
\* calendar step from the date that was due.
C15_CalendarSteps ==
    /\ [](StepExamples)
    /\ [](status = "rows" =>
            \A i \in 1..Len(transaction_list) :
              \E n \in 0..9 :
                CalendarSteps(csv_rows[i].frequency,
                              fromisoformat(csv_rows[i].next_date), n) = built[i].first)
    /\ [][Initialized =>
            \A i \in 1..Len(recurring_transactions) :
              Advances(i) =>
                recurring_transactions'[i].next_date =
                  CalendarStep(csv_rows[i].frequency, recurring_transactions[i].next_date)]_vars

C15_Witness ==
    \E i \in 1..Len(recurring_transactions) :
        /\ csv_rows[i].frequency = "monthly"
        /\ YMD[fromisoformat(csv_rows[i].next_date)][3] = 31
        /\ PostDates(i) = {Date(2024, 2, 29)}
        /\ recurring_transactions[i].next_date = Date(2024, 3, 29)

\* ------------------------------------------------------------ the printout
\* a step of print_ledger
PrintStep == status \in {"done", "printed"} /\ status' = "printed"

\* C12: print_ledger is a pure projection of the ledger. A print step leaves
\* current_day, end_day, the running balance, the transactions' next due
\* dates and the ledger as they were; it prints the header, the separator
\* and one line per entry in ledger order; printing again prints the same.
C12_PrintLedgerIsProjection ==
    /\ [][PrintStep => UNCHANGED <<current_day, end_day, current_balance,
                                   recurring_transactions, transaction_log>>]_vars
    /\ [](status = "printed" =>
            /\ Len(output) = Len(transaction_log) + 2
            /\ \A k \in 1..Len(transaction_log) :
                 /\ SubSeq(output[k + 2][1], 1, 10) = strftime(transaction_log[k].date)
                 /\ SubSeq(output[k + 2][2], 1, Len(NameText[transaction_log[k].name]))
                        = NameText[transaction_log[k].name])
    /\ [](previous_output # << >> => output = previous_output)

\* the ledger of a run with postings has been printed twice
C12_Witness ==
    /\ status = "printed"
    /\ previous_output # << >>
    /\ output = previous_output
    /\ Len(transaction_log) >= 3

\* the text print_ledger printed for the amount of entry k
AmountCell(k) == output[k + 2][3]

RECURSIVE StripLeft(_)
StripLeft(text) ==
    IF text # << >> /\ Head(text) = " " THEN StripLeft(Tail(text)) ELSE text

DigitValue(c) == CHOOSE d \in 0..9 : Digits[d + 1] = c

RECURSIVE DigitsValue(_, _)
\* the number the digits of a text spell, its other characters skipped
DigitsValue(text, acc) ==
    IF text = << >> THEN acc
    ELSE IF \E d \in 0..9 : Digits[d + 1] = Head(text)
    THEN DigitsValue(Tail(text), acc * 10 + DigitValue(Head(text)))
    ELSE DigitsValue(Tail(text), acc)

\* the cents a text "[-]d,ddd.dd" reads as
MoneyValue(text) ==
    IF Head(text) = "-" THEN -DigitsValue(text, 0) ELSE DigitsValue(text, 0)

Chars(text) == {text[i] : i \in 1..Len(text)}

Unwritable == {"missing/out.csv", "/proc/out.csv"}

ExportDiagnostics ==
    {Diag("Unable to write to the export location", ""),
     Diag("An unexpected error occurred", "")}

UnwritableDestinationDiagnosed ==
    (export_path \in Unwritable /\ transaction_log # << >>)
        => (status = "exit" /\ diag \in ExportDiagnostics /\ export_file = NoFile)

\* no run of the program comes to print or export a ledger without entries
LedgerNeverEmptyAtExport ==
    LoopEnded => transaction_log # << >>

====
